---- MODULE Spec2Model ----
(***************************************************************************)
(* Model of src/src/BoxOffice.py: the five /movies route handlers of the   *)
(* box-office API, the upstream client they share, and the query-parameter *)
(* validation FastAPI performs from the Query(...) declarations.           *)
(*                                                                         *)
(* Encoding of Python values:                                              *)
(*   Optional[T]   None is <<>>, a present value v is <<v>>                *)
(*   str ordering  primaryTitle and releaseDate are order-preserving       *)
(*                 integer codes; the empty string "" is code 0            *)
(*   float rating  averageRating in tenths (7.0 is 70)                     *)
(*   description   a sequence of character codes 1..n; "." is code 0       *)
(***************************************************************************)
EXTENDS Integers, Sequences, FiniteSets, TLC

VARIABLES snapshot, pc, endpoint, sort_by, limit, genre,
          upstream_calls, status_code, sorted_movies, movies, result

vars == <<snapshot, pc, endpoint, sort_by, limit, genre,
          upstream_calls, status_code, sorted_movies, movies, result>>

\* ---------------------------------------------------------------- bounds
MaxMovies == 2

\* ------------------------------------------------------ program constants
LimitMax == 10
DefaultLimit == 5
DescriptionWidth == 50

\* ------------------------------------------------------- Python helpers
None == <<>>
Some(v) == <<v>>
Min(a, b) == IF a <= b THEN a ELSE b
Max(a, b) == IF a >= b THEN a ELSE b

\* Truthiness of an Optional[int] / Optional[float]: None and 0 are falsy.
Truthy(o) == o # None /\ o[1] # 0

\* `o or d`: the value unless it is falsy.
OrDefault(o, d) == IF Truthy(o) THEN o[1] ELSE d

\* s[:n], negative n counting from the end.
PySlice(s, n) ==
    IF n >= 0 THEN SubSeq(s, 1, Min(n, Len(s)))
    ELSE SubSeq(s, 1, Max(Len(s) + n, 0))

Reverse(s) == [i \in 1..Len(s) |-> s[Len(s) + 1 - i]]

\* A stable ascending sort of <<key, item>> pairs, by key.
InsertSorted(x, t) ==
    LET n == Cardinality({i \in 1..Len(t) : t[i][1] <= x[1]})
    IN SubSeq(t, 1, n) \o <<x>> \o SubSeq(t, n + 1, Len(t))

RECURSIVE StableSortAsc(_)
StableSortAsc(s) ==
    IF s = <<>> THEN <<>>
    ELSE InsertSorted(s[Len(s)], StableSortAsc(SubSeq(s, 1, Len(s) - 1)))

\* A mutation of list_sort: reverse=True as "sort ascending, then reverse".
list_sort_unstable(decorated, reverse) ==
    IF reverse THEN Reverse(StableSortAsc(decorated))
    ELSE StableSortAsc(decorated)

\* list.sort(key=..., reverse=...) on decorated pairs: reverse=True reverses,
\* sorts ascending and reverses again, so equal keys keep their order.
list_sort(decorated, reverse) ==
    IF reverse THEN Reverse(StableSortAsc(Reverse(decorated)))
    ELSE StableSortAsc(decorated)

Undecorate(d) == [i \in 1..Len(d) |-> d[i][2]]

\* Filter a sequence, keeping order (a list comprehension with an `if`).
RECURSIVE SelectIdx(_, _)
SelectIdx(s, keep) ==
    IF s = <<>> THEN <<>>
    ELSE LET rest == SelectIdx(SubSeq(s, 1, Len(s) - 1), keep)
         IN IF Len(s) \in keep THEN Append(rest, s[Len(s)]) ELSE rest

\* ------------------------------------------------------------ the records
Text(n) == [i \in 1..n |-> i]

BaseMovie ==
    [primaryTitle |-> 1, averageRating |-> Some(70), releaseDate |-> Some(1),
     weekendGrossAmount |-> Some(5), description |-> Some(Text(DescriptionWidth)),
     genres |-> Some(<<"Action">>)]

BareMovie ==
    [primaryTitle |-> 2, averageRating |-> None, releaseDate |-> None,
     weekendGrossAmount |-> None, description |-> None, genres |-> None]

\* Movie records as the upstream can deliver them: every value of one field
\* against the fully populated record, and the record with every Optional None.
Movie ==
    {BaseMovie, BareMovie}
    \cup {[BaseMovie EXCEPT !.primaryTitle = 2]}
    \cup {[BaseMovie EXCEPT !.averageRating = r] : r \in {None, Some(0), Some(90)}}
    \cup {[BaseMovie EXCEPT !.releaseDate = d] : d \in {None, Some(0), Some(2)}}
    \cup {[BaseMovie EXCEPT !.weekendGrossAmount = g] : g \in {None, Some(0), Some(1200)}}
    \cup {[BaseMovie EXCEPT !.description = d] : d \in {None, Some(Text(DescriptionWidth + 1))}}
    \cup {[BaseMovie EXCEPT !.genres = g] : g \in {None, Some(<<>>), Some(<<"action", "Drama">>)}}

\* The id of a record is its position in the upstream payload.
WithIds(s) ==
    [i \in 1..Len(s) |->
        [id |-> i, primaryTitle |-> s[i].primaryTitle,
         averageRating |-> s[i].averageRating, releaseDate |-> s[i].releaseDate,
         weekendGrossAmount |-> s[i].weekendGrossAmount,
         description |-> s[i].description, genres |-> s[i].genres]]

Snapshots == UNION {{WithIds(s) : s \in [1..n -> Movie]} : n \in 0..MaxMovies}

SortOption == {"rating", "gross", "release", "title"}
Endpoints == {"get_movies", "get_movies_table", "get_movies_rating",
              "get_movies_genre", "get_movies_highest_opening"}
Guarded == {"get_movies_rating", "get_movies_genre", "get_movies_highest_opening"}
Limits == {-1, 0, 1, 2, LimitMax, LimitMax + 1}
Genres == {"Action", "Drama"}
\* What one requests.get can come back with: a status code, or no response
\* at all (the transport raised).
Responses == {Some(200), Some(503), None}

NoResult == [status |-> 0, error |-> "none", cause |-> "none", rows |-> <<>>]
Ok(rows) == [status |-> 200, error |-> "none", cause |-> "none", rows |-> rows]

\* An exception leaving the handler body of endpoint e.  The three markup
\* handlers wrap their body in try/except Exception and re-raise as
\* HTTPException(500); the other two let it propagate.
Raise(e, exc, status) ==
    IF e \in Guarded
    THEN [status |-> 500, error |-> "HTTPException", cause |-> exc, rows |-> <<>>]
    ELSE [status |-> status, error |-> exc, cause |-> exc, rows |-> <<>>]

\* ------------------------------------------------------------- rendering
\* f"{x:.1f}" of a rating held in tenths: integer part and one decimal.
FormatRating(r) == <<r \div 10, r % 10>>

\* The thousands groups of f"{n:,}".
RECURSIVE Groups(_)
Groups(n) == IF n < 1000 THEN <<n>> ELSE Append(Groups(n \div 1000), n % 1000)

NA == [text |-> "N/A", groups |-> <<>>, decimals |-> <<>>]

\* f"${m.weekendGrossAmount:,}" if m.weekendGrossAmount else "N/A"
TableGross(g) ==
    IF Truthy(g) THEN [text |-> "$", groups |-> Groups(g[1]), decimals |-> <<>>] ELSE NA

\* f"${movie.weekendGrossAmount:,.2f}" if movie.weekendGrossAmount else "N/A"
MarkupGross(g) ==
    IF Truthy(g) THEN [text |-> "$", groups |-> Groups(g[1]), decimals |-> <<0, 0>>] ELSE NA

Ellipsis == <<0, 0, 0>>

\* A mutation of TableDescription: the cut is one character late.
TableDescriptionLate(d) ==
    IF Len(d) > DescriptionWidth + 1
    THEN SubSeq(d, 1, DescriptionWidth + 1) \o Ellipsis ELSE d

\* m.description[:50] + "..." if len(m.description) > 50 else m.description
TableDescription(d) ==
    IF Len(d) > DescriptionWidth THEN SubSeq(d, 1, DescriptionWidth) \o Ellipsis ELSE d

\* The row expressions of get_movies_table raise TypeError on a None rating
\* (format spec on None) or a None description (len of None).
TableRowRaises(m) == m.averageRating = None \/ m.description = None

TableRow(m) ==
    [title |-> m.primaryTitle, rating |-> FormatRating(m.averageRating[1]),
     release |-> m.releaseDate, gross |-> TableGross(m.weekendGrossAmount),
     description |-> TableDescription(m.description[1])]

\* The row dict of the three markup handlers raises TypeError on a None rating.
MarkupRowRaises(m) == m.averageRating = None

MarkupRow(m) ==
    [title |-> m.primaryTitle, rating |-> FormatRating(m.averageRating[1]),
     release |-> None, gross |-> MarkupGross(m.weekendGrossAmount),
     description |-> <<>>]

\* response_model=List[MovieSummary]: averageRating, releaseDate and
\* description are required there, weekendGrossAmount stays Optional.
SummaryRaises(m) ==
    m.averageRating = None \/ m.releaseDate = None \/ m.description = None

SummaryRow(m) ==
    [title |-> m.primaryTitle, rating |-> <<m.averageRating[1]>>,
     release |-> m.releaseDate,
     gross |-> [text |-> "int", groups |-> m.weekendGrossAmount, decimals |-> <<>>],
     description |-> m.description[1]]

RenderMarkup(e, ms) ==
    IF \E i \in 1..Len(ms) : MarkupRowRaises(ms[i])
    THEN Raise(e, "TypeError", 500)
    ELSE Ok([i \in 1..Len(ms) |-> MarkupRow(ms[i])])

\* --------------------------------------------------------------- sorting
\* The key lambdas of get_movies / get_movies_table.
SortKey(m, s) ==
    CASE s = "rating" -> OrDefault(m.averageRating, 0)
      [] s = "gross" -> OrDefault(m.weekendGrossAmount, 0)
      [] s = "release" -> OrDefault(m.releaseDate, 0)
      [] OTHER -> m.primaryTitle

\* The if/elif chain on sort_by: title ascending, the others reverse=True.
SortMovies(ms, s) ==
    Undecorate(list_sort([i \in 1..Len(ms) |-> <<SortKey(ms[i], s), ms[i]>>],
                         s \in {"rating", "gross", "release"}))

\* movies.sort(key=lambda x: x.<field>, reverse=True) on present values.
SortDescBy(ms, field) ==
    Undecorate(list_sort([i \in 1..Len(ms) |-> <<ms[i][field][1], ms[i]>>], TRUE))

\* ----------------------------------------------------------------- state
Init ==
    /\ snapshot \in Snapshots
    /\ pc = "idle"
    /\ endpoint = "none"
    /\ sort_by = "none"
    /\ limit = DefaultLimit
    /\ genre = "none"
    /\ upstream_calls = 0
    /\ status_code = None
    /\ sorted_movies = <<>>
    /\ movies = <<>>
    /\ result = NoResult

\* A mutation of QueryValid: the le=10 constraint is missing.
QueryValidAny(l) == TRUE

\* limit: int = Query(default=5, le=10): an upper bound and no lower bound.
QueryValid(l) == l <= LimitMax

\* A request arrives and FastAPI validates its query parameters against the
\* route's Query declarations; a refused request never enters the handler.
Request(e, s, l, g) ==
    /\ pc = "idle"
    /\ endpoint' = e
    /\ sort_by' = s
    /\ limit' = l
    /\ genre' = g
    /\ IF ~QueryValid(l)
       THEN /\ pc' = "done"
            /\ result' = [status |-> 422, error |-> "RequestValidationError",
                          cause |-> "RequestValidationError", rows |-> <<>>]
       ELSE /\ pc' = "validated"
            /\ result' = NoResult
    /\ UNCHANGED <<snapshot, upstream_calls, status_code, sorted_movies, movies>>

\* A mutation of get_box_office_movies: a failed call is tried once more.
get_box_office_movies_retry ==
    /\ pc = "validated"
    /\ upstream_calls' = upstream_calls + 1
    /\ \E r \in Responses :
        /\ status_code' = r
        /\ IF r = Some(200)
           THEN /\ movies' = snapshot
                /\ pc' = "fetched"
                /\ UNCHANGED result
           ELSE /\ UNCHANGED movies
                /\ IF upstream_calls = 0
                   THEN UNCHANGED <<pc, result>>
                   ELSE /\ pc' = "done"
                        /\ result' = IF r = None
                                     THEN Raise(endpoint, "ConnectionError", 500)
                                     ELSE Raise(endpoint, "HTTPException", r[1])
    /\ UNCHANGED <<snapshot, endpoint, sort_by, limit, genre, sorted_movies>>

\* IMDBClient.get_box_office_movies, the first statement of every handler:
\* one requests.get, HTTPException(status_code) unless the status is 200.
get_box_office_movies ==
    /\ pc = "validated"
    /\ upstream_calls' = upstream_calls + 1
    /\ \E r \in Responses :
        /\ status_code' = r
        /\ IF r = Some(200)
           THEN /\ movies' = snapshot
                /\ pc' = "fetched"
                /\ UNCHANGED result
           ELSE /\ pc' = "done"
                /\ UNCHANGED movies
                /\ result' = IF r = None
                             THEN Raise(endpoint, "ConnectionError", 500)
                             ELSE Raise(endpoint, "HTTPException", r[1])
    /\ UNCHANGED <<snapshot, endpoint, sort_by, limit, genre, sorted_movies>>

Finish == 
    /\ pc' = "done"
    /\ UNCHANGED <<snapshot, endpoint, sort_by, limit, genre, upstream_calls, status_code>>

get_movies ==
    /\ pc = "fetched" /\ endpoint = "get_movies"
    /\ sorted_movies' = SortMovies(movies, sort_by)
    /\ movies' = PySlice(sorted_movies', limit)
    /\ result' = IF \E i \in 1..Len(movies') : SummaryRaises(movies'[i])
                 THEN Raise(endpoint, "ResponseValidationError", 500)
                 ELSE Ok([i \in 1..Len(movies') |-> SummaryRow(movies'[i])])
    /\ Finish

get_movies_table ==
    /\ pc = "fetched" /\ endpoint = "get_movies_table"
    /\ sorted_movies' = SortMovies(movies, sort_by)
    /\ movies' = PySlice(sorted_movies', limit)
    /\ result' = IF \E i \in 1..Len(movies') : TableRowRaises(movies'[i])
                 THEN Raise(endpoint, "TypeError", 500)
                 ELSE Ok([i \in 1..Len(movies') |-> TableRow(movies'[i])])
    /\ Finish

\* A mutation of RatingOrder: the handler honours sort_by as get_movies does.
RatingOrderBySortKey(ms, s) == SortMovies(ms, s)

\* get_movies_rating sorts by averageRating whatever sort_by says.
RatingOrder(ms, s) == SortDescBy(ms, "averageRating")

get_movies_rating ==
    /\ pc = "fetched" /\ endpoint = "get_movies_rating"
    /\ LET kept == SelectIdx(movies, {i \in 1..Len(movies) : Truthy(movies[i].averageRating)})
       IN sorted_movies' = RatingOrder(kept, sort_by)
    /\ movies' = PySlice(sorted_movies', limit)
    /\ result' = RenderMarkup(endpoint, movies')
    /\ Finish

\* `genre in m.genres`: membership in a list; on None it raises TypeError.
GenreTestRaises(m) == m.genres = None
GenreTest(g, m) == \E k \in 1..Len(m.genres[1]) : m.genres[1][k] = g

get_movies_genre ==
    /\ pc = "fetched" /\ endpoint = "get_movies_genre"
    /\ IF \E i \in 1..Len(movies) : GenreTestRaises(movies[i])
       THEN /\ result' = Raise(endpoint, "TypeError", 500)
            /\ UNCHANGED <<sorted_movies, movies>>
       ELSE /\ sorted_movies' = SelectIdx(movies, {i \in 1..Len(movies) : GenreTest(genre, movies[i])})
            /\ movies' = PySlice(sorted_movies', limit)
            /\ result' = RenderMarkup(endpoint, movies')
    /\ Finish

get_movies_highest_opening ==
    /\ pc = "fetched" /\ endpoint = "get_movies_highest_opening"
    /\ LET kept == SelectIdx(movies, {i \in 1..Len(movies) : Truthy(movies[i].weekendGrossAmount)})
       IN sorted_movies' = SortDescBy(kept, "weekendGrossAmount")
    /\ movies' = PySlice(sorted_movies', limit)
    /\ result' = RenderMarkup(endpoint, movies')
    /\ Finish

\* The response is sent and the handler's locals are gone; the next request
\* starts from nothing but the upstream's data.
Respond ==
    /\ pc = "done"
    /\ pc' = "idle"
    /\ endpoint' = "none"
    /\ sort_by' = "none"
    /\ limit' = DefaultLimit
    /\ genre' = "none"
    /\ upstream_calls' = 0
    /\ status_code' = None
    /\ sorted_movies' = <<>>
    /\ movies' = <<>>
    /\ result' = NoResult
    /\ UNCHANGED snapshot

\* The parameters each route declares.
Params(e) ==
    [s : IF e \in {"get_movies", "get_movies_table", "get_movies_rating"}
         THEN SortOption ELSE {"none"},
     g : IF e = "get_movies_genre" THEN Genres ELSE {"none"}]

Next ==
    \/ \E e \in Endpoints, l \in Limits : \E p \in Params(e) : Request(e, p.s, l, p.g)
    \/ get_box_office_movies
    \/ get_movies
    \/ get_movies_table
    \/ get_movies_rating
    \/ get_movies_genre
    \/ get_movies_highest_opening
    \/ Respond

Spec == Init /\ [][Next]_vars

\* ===================================================================
\* Properties
\* ===================================================================
Done == pc = "done"
Fetched == upstream_calls = 1 /\ status_code = Some(200)
Idx(s) == 1..Len(s)

\* b holds exactly the records of the set S, each once.
HoldsExactly(b, S) ==
    /\ Len(b) = Cardinality(S)
    /\ \A m \in S : \E i \in Idx(b) : b[i] = m

IsPrefix(a, b) == Len(a) <= Len(b) /\ \A k \in Idx(a) : a[k] = b[k]

\* The comparators the sort keys are documented with.
KeyOf(m, s) ==
    CASE s = "rating" -> IF m.averageRating = None THEN 0 ELSE m.averageRating[1]
      [] s = "gross" -> IF m.weekendGrossAmount = None THEN 0 ELSE m.weekendGrossAmount[1]
      [] s = "release" -> IF m.releaseDate = None THEN 0 ELSE m.releaseDate[1]
      [] s = "title" -> m.primaryTitle
Descending(s) == s \in {"rating", "gross", "release"}
InOrder(a, b, s) == IF Descending(s) THEN KeyOf(a, s) >= KeyOf(b, s) ELSE KeyOf(a, s) <= KeyOf(b, s)

OrderedStable(b, s) ==
    \A i, j \in Idx(b) :
        i < j => /\ InOrder(b[i], b[j], s)
                 /\ (KeyOf(b[i], s) = KeyOf(b[j], s) => b[i].id < b[j].id)

SnapshotSet == {snapshot[i] : i \in Idx(snapshot)}

\* C1: in get_movies and get_movies_table the sequence before truncation is a
\* permutation of the snapshot, ordered by the sort key's comparator (rating,
\* gross, release descending with absent as 0 / 0 / "", title ascending), and
\* records with equal keys keep their snapshot order, descending keys included.
C1_SortedStablePermutation ==
    (Done /\ Fetched /\ endpoint \in {"get_movies", "get_movies_table"}) =>
        /\ HoldsExactly(sorted_movies, SnapshotSet)
        /\ OrderedStable(sorted_movies, sort_by)

\* C1 witness: a descending sort has run over two records whose keys tie, one
\* of them through an absent value.
C1_Witness ==
    /\ Done /\ Fetched /\ endpoint = "get_movies_table" /\ sort_by = "gross"
    /\ Len(sorted_movies) = 2
    /\ sorted_movies[1].weekendGrossAmount = None
    /\ sorted_movies[2].weekendGrossAmount = Some(0)

\* The number of snapshot records that pass the entry point's filter.
Survivors(e, g) ==
    CASE e = "get_movies_rating" ->
            {m \in SnapshotSet : m.averageRating # None /\ m.averageRating[1] # 0}
      [] e = "get_movies_highest_opening" ->
            {m \in SnapshotSet : m.weekendGrossAmount # None /\ m.weekendGrossAmount[1] # 0}
      [] e = "get_movies_genre" ->
            {m \in SnapshotSet : m.genres # None /\ g \in {m.genres[1][k] : k \in Idx(m.genres[1])}}
      [] OTHER -> SnapshotSet

UpstreamFailed == upstream_calls > 0 /\ status_code # Some(200)
Complete(m) ==
    /\ m.averageRating # None /\ m.releaseDate # None /\ m.weekendGrossAmount # None
    /\ m.description # None /\ m.genres # None
AllComplete == \A m \in SnapshotSet : Complete(m)

C3_LimitBelowOneRejected ==
    (Done /\ limit < 1 /\ ~UpstreamFailed) =>
        /\ result.error = "RequestValidationError"
        /\ result.rows = <<>>
        /\ upstream_calls = 0

\* The snapshot records whose genres contain g, in snapshot order, cut to n.
GenreMatches(g) ==
    SelectIdx(snapshot, {i \in Idx(snapshot) :
        /\ snapshot[i].genres # None
        /\ \E k \in Idx(snapshot[i].genres[1]) : snapshot[i].genres[1][k] = g})

\* C4: get_movies_genre renders exactly the records whose genres contain the
\* requested genre, in snapshot order and truncated to the limit; a record
\* with absent or empty genres is left out and never makes the request fail.
\* (Taken with a limit in 1..10 and every rating present.)
C4_GenreFilterNeverRaises ==
    (Done /\ Fetched /\ endpoint = "get_movies_genre" /\ limit \in 1..LimitMax
          /\ \A m \in SnapshotSet : m.averageRating # None) =>
        /\ result.status = 200
        /\ movies = SubSeq(GenreMatches(genre), 1, Min(limit, Len(GenreMatches(genre))))
        /\ Len(result.rows) = Len(movies)

\* C5: when the upstream answers a non-success status s, every entry point
\* ends in an error carrying that same status s, with no partial output.
\* (Taken with a limit in 1..10.)
C5_UpstreamStatusPreserved ==
    (Done /\ upstream_calls = 1 /\ status_code \notin {None, Some(200)}
          /\ limit \in 1..LimitMax) =>
        /\ result.status = status_code[1]
        /\ result.rows = <<>>

\* C6: in the three markup-table entry points no record with an absent rating
\* reaches the row-formatting step, and a snapshot holding such records does
\* not make the request fail.  (Taken with every genres list present.)
C6_RatingAbsentFilteredOut ==
    (Done /\ Fetched /\ endpoint \in Guarded
          /\ \A m \in SnapshotSet : m.genres # None) =>
        /\ \A i \in Idx(movies) : movies[i].averageRating # None
        /\ result.status = 200

\* C7: in get_movies_table every rendered record whose weekendGrossAmount is
\* present, 0 included, shows a thousands-grouped currency string, and N/A
\* shows exactly when it is absent.
C7_GrossPresentIsCurrency ==
    (Done /\ endpoint = "get_movies_table" /\ result.status = 200) =>
        \A i \in Idx(movies) :
            /\ movies[i].weekendGrossAmount # None => result.rows[i].gross.text = "$"
            /\ result.rows[i].gross = NA <=> movies[i].weekendGrossAmount = None

\* C8: in get_movies_table a record without description among those rendered
\* ends the request in an error (the TypeError of the row expression, status
\* 500) and no table; otherwise a description longer than 50 characters shows
\* as its first 50 characters followed by "..." and a shorter one unchanged.
C8_DescriptionRequiredAndCut ==
    (Done /\ Fetched /\ endpoint = "get_movies_table") =>
        /\ (\E i \in Idx(movies) : movies[i].description = None) =>
              /\ result.error = "TypeError"
              /\ result.status = 500
              /\ result.rows = <<>>
        /\ result.status = 200 =>
              /\ Len(result.rows) = Len(movies)
              /\ \A i \in Idx(movies) :
                    LET d == movies[i].description[1]
                        r == result.rows[i].description
                    IN IF Len(d) > DescriptionWidth
                       THEN /\ Len(r) = DescriptionWidth + 3
                            /\ \A k \in 1..DescriptionWidth : r[k] = d[k]
                            /\ \A k \in 1..3 : r[DescriptionWidth + k] = 0
                       ELSE r = d

\* C8 witnesses: a longer description has been cut in a rendered table ...
C8_Witness ==
    /\ Done /\ endpoint = "get_movies_table" /\ result.status = 200
    /\ \E i \in Idx(movies) : Len(movies[i].description[1]) > DescriptionWidth
    /\ \E i \in Idx(movies) : Len(movies[i].description[1]) = DescriptionWidth

\* ... and a record without description, its rating present, has failed one.
C8_MissingDescriptionReached ==
    /\ Done /\ endpoint = "get_movies_table" /\ result.error = "TypeError"
    /\ \A i \in Idx(movies) : movies[i].averageRating # None
    /\ \E i \in Idx(movies) : movies[i].description = None

\* C9: a request that passes validation makes exactly one upstream call, and
\* makes it before any filter, sort, limit or render; a failed call is not
\* retried and ends the request in an error with nothing rendered.
C9_OneUpstreamCall ==
    /\ upstream_calls <= 1
    /\ pc \in {"idle", "validated"} =>
          /\ upstream_calls = 0
          /\ sorted_movies = <<>> /\ movies = <<>> /\ result.rows = <<>>
    /\ pc = "fetched" => upstream_calls = 1 /\ sorted_movies = <<>> /\ result.rows = <<>>
    /\ (Done /\ result.error # "RequestValidationError") => upstream_calls = 1
    /\ UpstreamFailed =>
          /\ Done
          /\ result.status # 200
          /\ result.rows = <<>> /\ sorted_movies = <<>> /\ movies = <<>>

\* C9 witness: the one upstream call failed and the request is over.
C9_Witness ==
    /\ Done /\ upstream_calls = 1 /\ status_code = Some(503)
    /\ result.status # 200 /\ Len(snapshot) = 2

====
